---- MODULE Spec2Model ----
(***************************************************************************)
(* RabbitNUT: a UPS monitor.  A polling loop (monitor.rs) reads the UPS    *)
(* status over the NUT line protocol (ups.rs), tracks the on-battery       *)
(* state, decides when to shut the host down and runs the shutdown         *)
(* command; every successful reading is published to a metrics cell that  *)
(* an HTTP server (metrics.rs) serves concurrently.                        *)
(*                                                                         *)
(* Strings are sequences of one-character strings, so that contains,       *)
(* starts_with, split_whitespace, trim_matches and the numeric parsers are *)
(* computed as the code computes them.  Option<T> is <<>> (None) or <<v>>  *)
(* (Some(v)).  Time is a clock of whole seconds.                           *)
(***************************************************************************)
EXTENDS Integers, Sequences, FiniteSets, TLC

\* ------------------------------------------------------------------ bounds
\* The clock stops the model at MaxTime seconds.
MaxTime == 3
\* The longest time one status read blocks the monitoring thread.
MaxDelay == 1
\* The number of spawned update_metrics tasks that may be pending at once.
MaxTasks == 2
\* The number of handle_metrics calls holding the read lock at once.
NumHandlers == 2
\* The number of lines the server sends in answer to LIST VAR.
MaxLines == 3

\* --------------------------------------------------------------- Option<T>
None == <<>>
Some(v) == <<v>>
IsSome(o) == Len(o) = 1
IsNone(o) == Len(o) = 0
Unwrap(o) == o[1]

\* ----------------------------------------------------------------- strings
IsWhitespace(c) == c \in {" ", "\t", "\n", "\r"}

\* str::starts_with
StartsWith(s, p) == Len(s) >= Len(p) /\ SubSeq(s, 1, Len(p)) = p

\* str::contains
Contains(s, sub) ==
  \E k \in 0..(Len(s) - Len(sub)) : SubSeq(s, k + 1, k + Len(sub)) = sub

\* str::to_uppercase on the letters the protocol uses
UpperOf(c) ==
  CASE c = "o" -> "O"
    [] c = "k" -> "K"
    [] c = "e" -> "E"
    [] c = "r" -> "R"
    [] OTHER -> c
ToUppercase(s) == [k \in 1..Len(s) |-> UpperOf(s[k])]

\* str::trim (leading and trailing whitespace)
RECURSIVE TrimStart(_)
TrimStart(s) ==
  IF s # <<>> /\ IsWhitespace(Head(s)) THEN TrimStart(Tail(s)) ELSE s
RECURSIVE TrimEnd(_)
TrimEnd(s) ==
  IF s # <<>> /\ IsWhitespace(s[Len(s)])
    THEN TrimEnd(SubSeq(s, 1, Len(s) - 1)) ELSE s
Trim(s) == TrimEnd(TrimStart(s))

\* str::trim_matches(c): every leading and trailing c is removed
RECURSIVE TrimMatchesStart(_, _)
TrimMatchesStart(s, c) ==
  IF s # <<>> /\ Head(s) = c THEN TrimMatchesStart(Tail(s), c) ELSE s
RECURSIVE TrimMatchesEnd(_, _)
TrimMatchesEnd(s, c) ==
  IF s # <<>> /\ s[Len(s)] = c
    THEN TrimMatchesEnd(SubSeq(s, 1, Len(s) - 1), c) ELSE s
TrimMatches(s, c) == TrimMatchesEnd(TrimMatchesStart(s, c), c)

\* str::split_whitespace: the maximal runs of non-whitespace characters
RECURSIVE SplitFrom(_, _, _)
SplitFrom(s, cur, acc) ==
  IF s = <<>>
    THEN IF cur = <<>> THEN acc ELSE Append(acc, cur)
    ELSE IF IsWhitespace(Head(s))
      THEN SplitFrom(Tail(s), <<>>, IF cur = <<>> THEN acc ELSE Append(acc, cur))
      ELSE SplitFrom(Tail(s), Append(cur, Head(s)), acc)
SplitWhitespace(s) == SplitFrom(s, <<>>, <<>>)

\* [&str]::join(" ")
RECURSIVE JoinSpace(_)
JoinSpace(parts) ==
  IF parts = <<>> THEN <<>>
  ELSE IF Len(parts) = 1 THEN parts[1]
  ELSE parts[1] \o <<" ">> \o JoinSpace(Tail(parts))

\* decimal digits
DigitVal(c) ==
  CASE c = "0" -> 0 [] c = "1" -> 1 [] c = "2" -> 2 [] c = "3" -> 3
    [] c = "4" -> 4 [] c = "5" -> 5 [] c = "6" -> 6 [] c = "7" -> 7
    [] c = "8" -> 8 [] c = "9" -> 9 [] OTHER -> -1
IsDigit(c) == DigitVal(c) >= 0
AllDigits(s) == s # <<>> /\ \A k \in 1..Len(s) : IsDigit(s[k])
RECURSIVE DecimalValue(_, _)
DecimalValue(s, acc) ==
  IF s = <<>> THEN acc ELSE DecimalValue(Tail(s), 10 * acc + DigitVal(Head(s)))

\* str::parse::<u64>(): an optional '+' and decimal digits; Option of the value
ParseU64(s) ==
  LET body == IF s # <<>> /\ Head(s) = "+" THEN Tail(s) ELSE s
  IN  IF AllDigits(body) THEN Some(DecimalValue(body, 0)) ELSE None

\* str::parse::<f64>() on the integral readings the model feeds it: an
\* optional sign and decimal digits; Option of the value
ParseF64(s) ==
  LET neg  == s # <<>> /\ Head(s) = "-"
      body == IF s # <<>> /\ Head(s) \in {"+", "-"} THEN Tail(s) ELSE s
  IN  IF AllDigits(body)
        THEN Some(IF neg THEN 0 - DecimalValue(body, 0) ELSE DecimalValue(body, 0))
        ELSE None

\* Option::unwrap_or
UnwrapOr(o, d) == IF IsSome(o) THEN Unwrap(o) ELSE d

\* ------------------------------------------------------ results (Result<T,E>)
\* value is Some(v) for Ok(v) and None for Err(e).
Ok(v) == [ok |-> TRUE, value |-> <<v>>, error |-> "none"]
Err(e) == [ok |-> FALSE, value |-> <<>>, error |-> e]
Val(r) == r.value[1]

\* ------------------------------------------------- protocol text (ups.rs)
\* The words of the NUT protocol, as character sequences.
W_VAR == <<"V", "A", "R">>
W_ERR == <<"E", "R", "R">>
W_OK == <<"O", "K">>
W_OB == <<"O", "B">>
W_DISCHRG == <<"D", "I", "S", "C", "H", "R", "G">>
W_END_LIST == <<"E", "N", "D", " ", "L", "I", "S", "T">>

\* What the server does when the client reads one line: it sends a line
\* (text, newline included), closes the stream (read_line returns 0 bytes and
\* the response stays empty), or the connection breaks (an io::Error).
Line(t) == [io |-> "line", text |-> t]
Eof == [io |-> "eof", text |-> <<>>]
Reset == [io |-> "reset", text |-> <<>>]

\* Replies of the server to USERNAME and PASSWORD.
L_OK == Line(<<"O", "K", "\n">>)
L_ok_lower == Line(<<"o", "k", "\n">>)
L_ACCESS_DENIED == Line(<<"E", "R", "R", " ", "A", "C", "C", "E", "S", "S", "-", "D", "E", "N", "I", "E", "D", "\n">>)
AuthReplies == {L_OK, L_ok_lower, L_ACCESS_DENIED, Eof}

\* Replies of the server to GET VAR ups battery.charge.
L_charge_50 == Line(<<"V", "A", "R", " ", "u", "p", "s", " ", "b", "a", "t", "t", "e", "r", "y", ".", "c", "h", "a", "r", "g", "e", " ", "\"", "5", "0", "\"", "\n">>)
L_charge_15 == Line(<<"V", "A", "R", " ", "u", "p", "s", " ", "b", "a", "t", "t", "e", "r", "y", ".", "c", "h", "a", "r", "g", "e", " ", "\"", "1", "5", "\"", "\n">>)
L_charge_20 == Line(<<"V", "A", "R", " ", "u", "p", "s", " ", "b", "a", "t", "t", "e", "r", "y", ".", "c", "h", "a", "r", "g", "e", " ", "\"", "2", "0", "\"", "\n">>)
L_charge_bad == Line(<<"V", "A", "R", " ", "u", "p", "s", " ", "b", "a", "t", "t", "e", "r", "y", ".", "c", "h", "a", "r", "g", "e", " ", "\"", "n", "/", "a", "\"", "\n">>)
L_ERR_UNKNOWN_UPS == Line(<<"E", "R", "R", " ", "U", "N", "K", "N", "O", "W", "N", "-", "U", "P", "S", "\n">>)
ChargeReplies == {L_charge_50, L_charge_20, L_charge_15, L_charge_bad, L_ERR_UNKNOWN_UPS}

\* Replies of the server to GET VAR ups battery.runtime.
L_runtime_600 == Line(<<"V", "A", "R", " ", "u", "p", "s", " ", "b", "a", "t", "t", "e", "r", "y", ".", "r", "u", "n", "t", "i", "m", "e", " ", "\"", "6", "0", "0", "\"", "\n">>)
L_runtime_180 == Line(<<"V", "A", "R", " ", "u", "p", "s", " ", "b", "a", "t", "t", "e", "r", "y", ".", "r", "u", "n", "t", "i", "m", "e", " ", "\"", "1", "8", "0", "\"", "\n">>)
L_runtime_bad == Line(<<"V", "A", "R", " ", "u", "p", "s", " ", "b", "a", "t", "t", "e", "r", "y", ".", "r", "u", "n", "t", "i", "m", "e", " ", "\"", "-", "1", "\"", "\n">>)
RuntimeReplies == {L_runtime_600, L_runtime_180, L_runtime_bad, Reset}

\* Replies of the server to GET VAR ups ups.status.
L_status_OL == Line(<<"V", "A", "R", " ", "u", "p", "s", " ", "u", "p", "s", ".", "s", "t", "a", "t", "u", "s", " ", "\"", "O", "L", " ", "C", "H", "R", "G", "\"", "\n">>)
L_status_OB == Line(<<"V", "A", "R", " ", "u", "p", "s", " ", "u", "p", "s", ".", "s", "t", "a", "t", "u", "s", " ", "\"", "O", "B", " ", "D", "I", "S", "C", "H", "R", "G", "\"", "\n">>)
L_status_short == Line(<<"V", "A", "R", " ", "u", "p", "s", ".", "s", "t", "a", "t", "u", "s", "\n">>)
StatusReplies == {L_status_OL, L_status_OB, L_status_short, Eof}

\* Replies of the server to GET VAR ups output.power.
L_power_120 == Line(<<"V", "A", "R", " ", "u", "p", "s", " ", "o", "u", "t", "p", "u", "t", ".", "p", "o", "w", "e", "r", " ", "\"", "1", "2", "0", "\"", "\n">>)
L_ERR_VAR_NOT_SUPPORTED == Line(<<"E", "R", "R", " ", "V", "A", "R", "-", "N", "O", "T", "-", "S", "U", "P", "P", "O", "R", "T", "E", "D", "\n">>)
L_power_bad == Line(<<"V", "A", "R", " ", "u", "p", "s", " ", "o", "u", "t", "p", "u", "t", ".", "p", "o", "w", "e", "r", " ", "\"", "n", "/", "a", "\"", "\n">>)
L_power_short == Line(<<"V", "A", "R", " ", "o", "u", "t", "p", "u", "t", ".", "p", "o", "w", "e", "r", "\n">>)
PowerReplies ==
  {L_power_120, L_power_bad, L_power_short, L_ERR_VAR_NOT_SUPPORTED, Eof, Reset}

\* One connection as the server plays it: whether the TCP connect succeeds
\* and the reply to each read, in the order the client reads.
Sessions ==
  [connect : BOOLEAN, username : AuthReplies, password : AuthReplies,
   charge : ChargeReplies, runtime : RuntimeReplies,
   status : StatusReplies, power : PowerReplies]

\* ------------------------------------------------------ UpsClient (ups.rs)
\* authenticate writing both commands before it checks either answer.
Authenticate_ChecksAtEnd(session) ==
  LET r1 == session.username
      r2 == session.password
  IN  IF r1.io = "reset" \/ r2.io = "reset"
        THEN [result |-> Err("io"), sent |-> <<"USERNAME", "PASSWORD">>]
      ELSE IF ~Contains(ToUppercase(r1.text), W_OK)
        THEN [result |-> Err("auth_username"), sent |-> <<"USERNAME", "PASSWORD">>]
      ELSE IF ~Contains(ToUppercase(r2.text), W_OK)
        THEN [result |-> Err("auth_password"), sent |-> <<"USERNAME", "PASSWORD">>]
      ELSE [result |-> Ok(<<>>), sent |-> <<"USERNAME", "PASSWORD">>]

\* UpsClient::authenticate: USERNAME, one line read and checked, and only then
\* PASSWORD, one line read and checked.  sent lists the commands written.
Authenticate(session) ==
  LET r1 == session.username
      r2 == session.password
  IN  IF r1.io = "reset" THEN [result |-> Err("io"), sent |-> <<"USERNAME">>]
      ELSE IF ~Contains(ToUppercase(r1.text), W_OK)
        THEN [result |-> Err("auth_username"), sent |-> <<"USERNAME">>]
      ELSE IF r2.io = "reset"
        THEN [result |-> Err("io"), sent |-> <<"USERNAME", "PASSWORD">>]
      ELSE IF ~Contains(ToUppercase(r2.text), W_OK)
        THEN [result |-> Err("auth_password"), sent |-> <<"USERNAME", "PASSWORD">>]
      ELSE [result |-> Ok(<<>>), sent |-> <<"USERNAME", "PASSWORD">>]

\* UpsClient::connect: the TCP connect, then the handshake when both a user
\* name and a password are configured.
Connect(session, credentials) ==
  IF ~session.connect THEN [result |-> Err("connect"), sent |-> <<>>]
  ELSE IF credentials THEN Authenticate(session)
  ELSE [result |-> Ok(<<>>), sent |-> <<>>]

\* UpsClient::get_var: one line read, split on whitespace; at least four
\* parts with the first equal to VAR give the value (parts 4.. joined by a
\* space, surrounding quotes removed).
GetVar(reply) ==
  IF reply.io = "reset" THEN Err("io")
  ELSE
    LET text == reply.text
        parts == SplitWhitespace(Trim(text))
    IN  IF Len(parts) >= 4 /\ parts[1] = W_VAR
          THEN Ok(TrimMatches(JoinSpace(SubSeq(parts, 4, Len(parts))), "\""))
        ELSE IF Contains(text, W_ERR) THEN Err("ups_error")
        ELSE Err("invalid_response")

\* The status of the UPS as get_status assembles it.
UpsStatus(charge, runtime, raw, power) ==
  [battery_charge |-> charge,
   battery_runtime |-> runtime,
   ups_status |-> raw,
   on_battery |-> Contains(raw, W_OB) \/ Contains(raw, W_DISCHRG),
   output_power |-> power]

\* The commands get_status writes after the handshake.
GET_CHARGE == "GET VAR battery.charge"
GET_RUNTIME == "GET VAR battery.runtime"
GET_STATUS == "GET VAR ups.status"
GET_POWER == "GET VAR output.power"

\* get_status failing the read when battery.charge or battery.runtime is not
\* a number, instead of taking 0.
GetStatusRun_StrictParse(session, credentials) ==
  LET conn == Connect(session, credentials)
      v1 == GetVar(session.charge)
      v2 == GetVar(session.runtime)
      v3 == GetVar(session.status)
      v4 == GetVar(session.power)
  IN  IF ~conn.result.ok THEN [result |-> Err(conn.result.error), sent |-> conn.sent]
      ELSE IF ~v1.ok \/ IsNone(ParseF64(Val(v1)))
        THEN [result |-> Err("invalid_response"), sent |-> conn.sent \o <<GET_CHARGE>>]
      ELSE IF ~v2.ok \/ IsNone(ParseU64(Val(v2)))
        THEN [result |-> Err("invalid_response"),
              sent |-> conn.sent \o <<GET_CHARGE, GET_RUNTIME>>]
      ELSE IF ~v3.ok
        THEN [result |-> Err(v3.error),
              sent |-> conn.sent \o <<GET_CHARGE, GET_RUNTIME, GET_STATUS>>]
      ELSE [result |-> Ok(UpsStatus(Unwrap(ParseF64(Val(v1))),
                                    Unwrap(ParseU64(Val(v2))),
                                    Val(v3),
                                    IF v4.ok THEN ParseF64(Val(v4)) ELSE None)),
            sent |-> conn.sent \o <<GET_CHARGE, GET_RUNTIME, GET_STATUS, GET_POWER>>]

\* get_status with `?` on the read of output.power too.
GetStatusRun_PowerRequired(session, credentials) ==
  LET conn == Connect(session, credentials)
      v1 == GetVar(session.charge)
      v2 == GetVar(session.runtime)
      v3 == GetVar(session.status)
      v4 == GetVar(session.power)
  IN  IF ~conn.result.ok THEN [result |-> Err(conn.result.error), sent |-> conn.sent]
      ELSE IF ~v1.ok
        THEN [result |-> Err(v1.error), sent |-> conn.sent \o <<GET_CHARGE>>]
      ELSE IF ~v2.ok
        THEN [result |-> Err(v2.error), sent |-> conn.sent \o <<GET_CHARGE, GET_RUNTIME>>]
      ELSE IF ~v3.ok
        THEN [result |-> Err(v3.error),
              sent |-> conn.sent \o <<GET_CHARGE, GET_RUNTIME, GET_STATUS>>]
      ELSE IF ~v4.ok
        THEN [result |-> Err(v4.error),
              sent |-> conn.sent \o <<GET_CHARGE, GET_RUNTIME, GET_STATUS, GET_POWER>>]
      ELSE [result |-> Ok(UpsStatus(UnwrapOr(ParseF64(Val(v1)), 0),
                                    UnwrapOr(ParseU64(Val(v2)), 0),
                                    Val(v3),
                                    ParseF64(Val(v4)))),
            sent |-> conn.sent \o <<GET_CHARGE, GET_RUNTIME, GET_STATUS, GET_POWER>>]

\* UpsClient::get_status: connect, then the four reads in order; the first
\* three fail the read with `?`, the fourth does not.  result is what it
\* returns, sent lists the commands written on the connection.
GetStatusRun(session, credentials) ==
  LET conn == Connect(session, credentials)
      v1 == GetVar(session.charge)
      v2 == GetVar(session.runtime)
      v3 == GetVar(session.status)
      v4 == GetVar(session.power)
  IN  IF ~conn.result.ok THEN [result |-> Err(conn.result.error), sent |-> conn.sent]
      ELSE IF ~v1.ok
        THEN [result |-> Err(v1.error), sent |-> conn.sent \o <<GET_CHARGE>>]
      ELSE IF ~v2.ok
        THEN [result |-> Err(v2.error), sent |-> conn.sent \o <<GET_CHARGE, GET_RUNTIME>>]
      ELSE IF ~v3.ok
        THEN [result |-> Err(v3.error),
              sent |-> conn.sent \o <<GET_CHARGE, GET_RUNTIME, GET_STATUS>>]
      ELSE [result |-> Ok(UpsStatus(UnwrapOr(ParseF64(Val(v1)), 0),
                                    UnwrapOr(ParseU64(Val(v2)), 0),
                                    Val(v3),
                                    IF v4.ok THEN ParseF64(Val(v4)) ELSE None)),
            sent |-> conn.sent \o <<GET_CHARGE, GET_RUNTIME, GET_STATUS, GET_POWER>>]

\* What get_status returns.
GetStatus(session, credentials) == GetStatusRun(session, credentials).result

\* Lines of the server's answer to LIST VAR ups.
LL_BEGIN == Line(<<"B", "E", "G", "I", "N", " ", "L", "I", "S", "T", " ", "V", "A", "R", " ", "u", "p", "s", "\n">>)
LL_charge == Line(<<"V", "A", "R", " ", "u", "p", "s", " ", "b", "a", "t", "t", "e", "r", "y", ".", "c", "h", "a", "r", "g", "e", " ", "\"", "5", "0", "\"", "\r", "\n">>)
LL_mfr == Line(<<"V", "A", "R", " ", "u", "p", "s", " ", "u", "p", "s", ".", "m", "f", "r", " ", "\"", "A", " ", "B", "\"", "\n">>)
LL_short == Line(<<"V", "A", "R", " ", "u", "p", "s", " ", "u", "p", "s", ".", "m", "f", "r", "\n">>)
LL_END == Line(<<"E", "N", "D", " ", "L", "I", "S", "T", " ", "V", "A", "R", " ", "u", "p", "s", "\n">>)
ListReplies == {LL_BEGIN, LL_charge, LL_mfr, LL_short, LL_END, Reset}

\* The answers to LIST VAR: up to MaxLines lines, then the stream ends.
Listings == UNION {[1..n -> ListReplies] : n \in 0..MaxLines}

\* BufRead::lines: a line without its terminator, "\n" or "\r\n".
StripNewline(t) ==
  IF t # <<>> /\ t[Len(t)] = "\n"
    THEN IF Len(t) >= 2 /\ t[Len(t) - 1] = "\r"
           THEN SubSeq(t, 1, Len(t) - 2)
           ELSE SubSeq(t, 1, Len(t) - 1)
    ELSE t

\* The pair list_vars pushes for a VAR line of at least four parts.
VarEntry(parts) ==
  <<parts[3], TrimMatches(JoinSpace(SubSeq(parts, 4, Len(parts))), "\"")>>

\* list_vars reading on after a line starting with END LIST.
RECURSIVE ListLoop_NoBreak(_, _)
ListLoop_NoBreak(rest, vars) ==
  IF rest = <<>> \/ Head(rest).io = "eof" THEN Ok(vars)
  ELSE IF Head(rest).io = "reset" THEN Err("io")
  ELSE LET line == StripNewline(Head(rest).text)
           parts == SplitWhitespace(line)
       IN  IF StartsWith(line, W_VAR)
             THEN ListLoop_NoBreak(Tail(rest),
                    IF Len(parts) >= 4 THEN Append(vars, VarEntry(parts)) ELSE vars)
             ELSE ListLoop_NoBreak(Tail(rest), vars)

\* The loop of list_vars over reader.lines(): a read error fails the call, a
\* line starting with VAR is split and pushed when it has four parts, a line
\* starting with END LIST ends the loop, any other line is skipped, and the
\* end of the stream ends the loop.
RECURSIVE ListLoop(_, _)
ListLoop(rest, vars) ==
  IF rest = <<>> \/ Head(rest).io = "eof" THEN Ok(vars)
  ELSE IF Head(rest).io = "reset" THEN Err("io")
  ELSE LET line == StripNewline(Head(rest).text)
           parts == SplitWhitespace(line)
       IN  IF StartsWith(line, W_VAR)
             THEN ListLoop(Tail(rest),
                    IF Len(parts) >= 4 THEN Append(vars, VarEntry(parts)) ELSE vars)
           ELSE IF StartsWith(line, W_END_LIST) THEN Ok(vars)
           ELSE ListLoop(Tail(rest), vars)

\* The command list_vars writes after the handshake.
LIST_VAR == "LIST VAR"

\* UpsClient::list_vars: connect, LIST VAR, then the loop over the lines.
ListVarsRun(session, credentials, lines) ==
  LET conn == Connect(session, credentials)
  IN  IF ~conn.result.ok THEN [result |-> Err(conn.result.error), sent |-> conn.sent]
      ELSE [result |-> ListLoop(lines, <<>>), sent |-> conn.sent \o <<LIST_VAR>>]

\* The sessions of a server with healthy charge and runtime readings that
\* answers every read of charge, runtime and status.
PlainSessions ==
  {s \in Sessions :
     /\ s.username = L_OK /\ s.password = L_OK
     /\ s.charge = L_charge_50
     /\ s.runtime = L_runtime_600
     /\ s.status \in {L_status_OL, L_status_OB}}

\* The sessions in which battery.charge or battery.runtime may be answered
\* with a value that is not a number; every read is answered.
FallbackSessions ==
  {s \in Sessions :
     /\ s.connect /\ s.username = L_OK /\ s.password = L_OK
     /\ s.charge \in {L_charge_50, L_charge_bad}
     /\ s.runtime \in {L_runtime_600, L_runtime_bad}
     /\ s.status \in {L_status_OL, L_status_OB}
     /\ s.power = L_power_120}

\* The sessions of a UPS on battery with healthy charge and runtime readings
\* that answers every read.
OnBatterySessions ==
  {s \in PlainSessions : s.connect /\ s.status = L_status_OB}

\* No session on record.
NoSession == [connect |-> FALSE]

\* Every outcome of one status read over the sessions the server can play,
\* without and with configured credentials.  TracedReads keeps the session
\* with the outcome; the others keep the outcome alone.
AllReads ==
  [c \in BOOLEAN |->
     {[session |-> NoSession, result |-> GetStatus(s, c)] : s \in Sessions}]
PlainReads ==
  [c \in BOOLEAN |->
     {[session |-> NoSession, result |-> GetStatus(s, c)] : s \in PlainSessions}]
OnBatteryReads ==
  [c \in BOOLEAN |->
     {[session |-> NoSession, result |-> GetStatus(s, c)] : s \in OnBatterySessions}]
TracedReads ==
  [c \in BOOLEAN |->
     {[session |-> s, result |-> GetStatus(s, c)] : s \in FallbackSessions}]

\* ------------------------------------------------------ Config (config.rs)
\* The thresholds of Config::default().
DefaultBatteryPercentThreshold == 20
DefaultRuntimeThreshold == 180

\* Shutdown command strings: the default one, and a blank one.
CmdDefault == <<"/", "s", "b", "i", "n", "/", "s", "h", "u", "t", "d", "o", "w", "n", " ", "-", "h", " ", "+", "0">>
CmdBlank == <<" ", " ">>

\* Bearer tokens and the Authorization header's scheme prefix.
TokenS3 == <<"s", "3">>
BearerPrefix == <<"B", "e", "a", "r", "e", "r", " ">>

\* The shutdown and monitoring sections, the credentials of the ups section
\* (TRUE when both username and password are set).
MonitorConfigs ==
  [shutdown_enabled : BOOLEAN,
   on_battery_seconds : {0, 1, 2},
   battery_percent_threshold : {DefaultBatteryPercentThreshold},
   runtime_threshold : {DefaultRuntimeThreshold},
   shutdown_command : {CmdDefault, CmdBlank},
   shutdown_grace_period : {0, 2},
   poll_interval : {1, 2},
   credentials : BOOLEAN]

\* The metrics section: absent or disabled (metrics_enabled FALSE), or enabled
\* with an optional bearer token and a format.
MetricsOff == [metrics_enabled |-> FALSE, bearer_token |-> None, format |-> "openmetrics"]
MetricsOn ==
  [metrics_enabled : {TRUE}, bearer_token : {None, Some(TokenS3)},
   format : {"openmetrics", "json"}]

\* Two records merged into one.
Merge(a, b) ==
  [k \in (DOMAIN a) \cup (DOMAIN b) |-> IF k \in DOMAIN a THEN a[k] ELSE b[k]]

\* -------------------------------------------------------------------- state
VARIABLES
  config,              \* Config, fixed for the run
  now,                 \* the clock, in seconds
  pc,                  \* where UpsMonitor::run is: cycle, countdown, sleep, done
  on_battery_since,    \* MonitorState.on_battery_since: Option<Instant>
  shutdown_scheduled,  \* MonitorState.shutdown_scheduled
  status,              \* the Result of the last get_status of monitor_cycle
  last_on_battery,     \* on_battery of the last snapshot read: Option<bool>
  countdown_i,         \* the loop variable of the countdown of execute_shutdown
  scheduled_at,        \* when execute_shutdown set the flag: Option<time>
  command_result,      \* what became of the shutdown command
  commands_run,        \* how many times Command::output() was called
  tasks,               \* update_metrics tasks spawned on the runtime, not yet run
  next_task,           \* the number of update_metrics tasks spawned so far
  latest,              \* the last update_metrics task spawned: Option<task>
  stored_seq,          \* the number of the task whose record is in the cell
  writer,              \* the update_metrics task holding the write lock
  metrics,             \* MetricsServer.metrics: the cell behind the RwLock
  stable,              \* the cell as the last release of the write lock left it
  readers,             \* the read guards of the RwLock held by handle_metrics calls
  response,            \* the HTTP response sent by the last step, with its request
  server,              \* the session the NUT server played in the last client call
  listing,             \* the lines the NUT server sends in answer to LIST VAR
  outcome              \* the client call made, its result and the commands it sent

monitor_vars ==
  <<config, now, pc, on_battery_since, shutdown_scheduled, status, last_on_battery,
    countdown_i, scheduled_at, command_result, commands_run>>
metrics_vars ==
  <<tasks, next_task, latest, stored_seq, writer, metrics, stable, readers, response>>
client_vars == <<server, listing, outcome>>
\* The metrics side and the client's ledger untouched, and no response sent
\* in this step.
MetricsIdle ==
  /\ response' = None
  /\ UNCHANGED <<tasks, next_task, latest, stored_seq, writer, metrics, stable, readers>>
  /\ UNCHANGED client_vars
vars == <<monitor_vars, metrics_vars, client_vars>>

\* No status read yet.
NotRead == Err("not_read")

\* No client call made.
NoCall == [op |-> "none", result |-> Err("not_run"), sent |-> <<>>]

\* --------------------------------------------------- UpsMonitor (monitor.rs)
\* update_battery_state recording the time of every on-battery snapshot.
UpdateBatteryState_Refreshes(since, st, t) ==
  IF st.on_battery THEN Some(t) ELSE None

\* update_battery_state without the branch that clears on_battery_since.
UpdateBatteryState_NeverClears(since, st, t) ==
  IF st.on_battery /\ IsNone(since) THEN Some(t) ELSE since

\* UpsMonitor::update_battery_state: the new on_battery_since.
UpdateBatteryState(since, st, t) ==
  IF st.on_battery
    THEN IF IsNone(since) THEN Some(t) ELSE since
    ELSE IF IsSome(since) THEN None ELSE since

\* Instant::elapsed().as_secs() at time t
Elapsed(since, t) == t - Unwrap(since)

\* should_shutdown without the test of shutdown_scheduled.
ShouldShutdown_IgnoresFlag(cfg, scheduled, since, st, t) ==
  IF ~cfg.shutdown_enabled THEN FALSE
  ELSE IF ~st.on_battery THEN FALSE
  ELSE IF IsSome(since) /\ Elapsed(since, t) >= cfg.on_battery_seconds THEN TRUE
  ELSE IF st.battery_charge <= cfg.battery_percent_threshold THEN TRUE
  ELSE IF st.battery_runtime <= cfg.runtime_threshold THEN TRUE
  ELSE FALSE

\* should_shutdown without the test of status.on_battery.
ShouldShutdown_IgnoresOnBattery(cfg, scheduled, since, st, t) ==
  IF ~cfg.shutdown_enabled \/ scheduled THEN FALSE
  ELSE IF IsSome(since) /\ Elapsed(since, t) >= cfg.on_battery_seconds THEN TRUE
  ELSE IF st.battery_charge <= cfg.battery_percent_threshold THEN TRUE
  ELSE IF st.battery_runtime <= cfg.runtime_threshold THEN TRUE
  ELSE FALSE

\* should_shutdown with strict comparisons for the charge and runtime triggers.
ShouldShutdown_StrictThresholds(cfg, scheduled, since, st, t) ==
  IF ~cfg.shutdown_enabled \/ scheduled THEN FALSE
  ELSE IF ~st.on_battery THEN FALSE
  ELSE IF IsSome(since) /\ Elapsed(since, t) >= cfg.on_battery_seconds THEN TRUE
  ELSE IF st.battery_charge < cfg.battery_percent_threshold THEN TRUE
  ELSE IF st.battery_runtime < cfg.runtime_threshold THEN TRUE
  ELSE FALSE

\* should_shutdown called before update_battery_state: the time trigger looks
\* at on_battery_since as the previous cycle left it.
ShouldShutdown_BeforeUpdate(cfg, scheduled, since, st, t) ==
  IF ~cfg.shutdown_enabled \/ scheduled THEN FALSE
  ELSE IF ~st.on_battery THEN FALSE
  ELSE IF IsSome(on_battery_since)
          /\ Elapsed(on_battery_since, t) >= cfg.on_battery_seconds THEN TRUE
  ELSE IF st.battery_charge <= cfg.battery_percent_threshold THEN TRUE
  ELSE IF st.battery_runtime <= cfg.runtime_threshold THEN TRUE
  ELSE FALSE

\* UpsMonitor::should_shutdown
ShouldShutdown(cfg, scheduled, since, st, t) ==
  IF ~cfg.shutdown_enabled \/ scheduled THEN FALSE
  ELSE IF ~st.on_battery THEN FALSE
  ELSE IF IsSome(since) /\ Elapsed(since, t) >= cfg.on_battery_seconds THEN TRUE
  ELSE IF st.battery_charge <= cfg.battery_percent_threshold THEN TRUE
  ELSE IF st.battery_runtime <= cfg.runtime_threshold THEN TRUE
  ELSE FALSE

\* run without the sleep between two cycles.
AfterCycle_NoSleep(scheduled) == IF scheduled THEN "done" ELSE "cycle"

\* run without the break on shutdown_scheduled.
AfterCycle_NoBreak(scheduled) == "sleep"

\* UpsMonitor::run, after monitor_cycle returned: break when the flag is set,
\* sleep otherwise.
AfterCycle(scheduled) == IF scheduled THEN "done" ELSE "sleep"

\* UpsMonitor::execute_shutdown, its entry: TRUE when it goes on to the
\* countdown, FALSE when it returns at once.
ExecuteShutdownEnters(scheduled) == ~scheduled

\* The task monitor_cycle spawns for update_metrics: the snapshot and the
\* on-battery duration, read from on_battery_since before update_battery_state.
UpdateTask(n, st, since, t) ==
  [seq |-> n,
   status |-> st,
   on_battery_duration |-> IF IsSome(since) THEN Some(Elapsed(since, t)) ELSE None]

\* UpsMonitor::monitor_cycle, up to the point where it returns or blocks in the
\* countdown.  The status read takes d seconds.
MonitorCycle(reads) ==
  /\ pc = "cycle"
  /\ \E d \in 0..MaxDelay :
     \E read \in reads[config.credentials] :
       LET r == read.result IN
       /\ server' = read.session
       /\ now + d <= MaxTime
       /\ now' = now + d
       /\ status' = r
       /\ IF ~r.ok
            THEN /\ pc' = AfterCycle(shutdown_scheduled)
                 /\ UNCHANGED <<on_battery_since, shutdown_scheduled, last_on_battery,
                                countdown_i, scheduled_at, tasks, next_task, latest>>
            ELSE LET st == Val(r)
                     since == UpdateBatteryState(on_battery_since, st, now')
                     fire == /\ ShouldShutdown(config, shutdown_scheduled, since, st, now')
                             /\ ExecuteShutdownEnters(shutdown_scheduled)
                 IN  /\ IF config.metrics_enabled
                          THEN /\ Cardinality(tasks) < MaxTasks
                               /\ tasks' = tasks \cup
                                    {UpdateTask(next_task, st, on_battery_since, now')}
                               /\ next_task' = next_task + 1
                               /\ latest' =
                                    Some(UpdateTask(next_task, st, on_battery_since, now'))
                          ELSE UNCHANGED <<tasks, next_task, latest>>
                     /\ on_battery_since' = since
                     /\ last_on_battery' = Some(st.on_battery)
                     /\ IF fire
                          THEN /\ shutdown_scheduled' = TRUE
                               /\ scheduled_at' = Some(now')
                               /\ countdown_i' = config.shutdown_grace_period
                               /\ pc' = "countdown"
                          ELSE /\ pc' = AfterCycle(shutdown_scheduled)
                               /\ UNCHANGED <<shutdown_scheduled, scheduled_at, countdown_i>>
  /\ response' = None
  /\ UNCHANGED <<config, command_result, commands_run, stored_seq, writer, metrics,
                 stable, readers, listing, outcome>>

\* One iteration of the countdown loop of execute_shutdown: a sleep of one second.
CountdownStep ==
  /\ pc = "countdown"
  /\ countdown_i >= 1
  /\ now + 1 <= MaxTime
  /\ now' = now + 1
  /\ countdown_i' = countdown_i - 1
  /\ UNCHANGED <<config, pc, on_battery_since, shutdown_scheduled, status,
                 last_on_battery, scheduled_at, command_result, commands_run>>
  /\ MetricsIdle

\* What Command::output() can come to.
CommandOutcomes == {"success", "failed", "spawn_error"}

\* execute_shutdown without the test for an empty command: the program is
\* started whatever the split gives.
ExecuteCommand_RunsEmpty ==
  /\ pc = "countdown"
  /\ countdown_i = 0
  /\ command_result' \in CommandOutcomes
  /\ commands_run' = commands_run + 1
  /\ pc' = AfterCycle(shutdown_scheduled)
  /\ UNCHANGED <<config, now, on_battery_since, shutdown_scheduled, status,
                 last_on_battery, countdown_i, scheduled_at>>
  /\ MetricsIdle

\* execute_shutdown running the command without waiting for the countdown.
ExecuteCommand_BeforeCountdown ==
  /\ pc = "countdown"
  /\ LET parts == SplitWhitespace(config.shutdown_command)
     IN  IF parts = <<>>
           THEN /\ command_result' = "empty"
                /\ UNCHANGED commands_run
           ELSE /\ command_result' \in {"success", "failed", "spawn_error"}
                /\ commands_run' = commands_run + 1
  /\ pc' = AfterCycle(shutdown_scheduled)
  /\ UNCHANGED <<config, now, on_battery_since, shutdown_scheduled, status,
                 last_on_battery, countdown_i, scheduled_at>>
  /\ MetricsIdle

\* The rest of execute_shutdown once the countdown is over: the command is
\* split and run; monitor_cycle returns and run looks at the flag.
ExecuteCommand ==
  /\ pc = "countdown"
  /\ countdown_i = 0
  /\ LET parts == SplitWhitespace(config.shutdown_command)
     IN  IF parts = <<>>
           THEN /\ command_result' = "empty"
                /\ UNCHANGED commands_run
           ELSE /\ command_result' \in CommandOutcomes
                /\ commands_run' = commands_run + 1
  /\ pc' = AfterCycle(shutdown_scheduled)
  /\ UNCHANGED <<config, now, on_battery_since, shutdown_scheduled, status,
                 last_on_battery, countdown_i, scheduled_at>>
  /\ MetricsIdle

\* thread::sleep(poll_interval) at the end of the loop body of run.
Sleep ==
  /\ pc = "sleep"
  /\ now + config.poll_interval <= MaxTime
  /\ now' = now + config.poll_interval
  /\ pc' = "cycle"
  /\ UNCHANGED <<config, on_battery_since, shutdown_scheduled, status,
                 last_on_battery, countdown_i, scheduled_at, command_result,
                 commands_run>>
  /\ MetricsIdle

\* UpsMonitor::new and the entry of run, with the metrics server off.
InitMonitor ==
  /\ config \in {Merge(c, MetricsOff) : c \in MonitorConfigs}
  /\ now = 0
  /\ pc = "cycle"
  /\ on_battery_since = None
  /\ shutdown_scheduled = FALSE
  /\ status = NotRead
  /\ last_on_battery = None
  /\ countdown_i = 0
  /\ scheduled_at = None
  /\ command_result = "none"
  /\ commands_run = 0
  /\ tasks = {}
  /\ next_task = 0
  /\ latest = None
  /\ stored_seq = None
  /\ writer = None
  /\ metrics = None
  /\ stable = None
  /\ readers = 0
  /\ response = None
  /\ server = NoSession
  /\ listing = <<>>
  /\ outcome = NoCall

NextMonitor == MonitorCycle(AllReads) \/ CountdownStep \/ ExecuteCommand \/ Sleep

SpecMonitor == InitMonitor /\ [][NextMonitor]_vars

\* ------------------------------------------- MetricsServer (metrics.rs)
\* config.ups.name and config.ups.host, as Config::default() has them.
UpsName == "ups"
UpsHost == "localhost"

\* The Metrics record update_metrics builds from a task at time t.
Metrics(task, t) ==
  [ups_name |-> UpsName,
   ups_host |-> UpsHost,
   battery_charge_percent |-> task.status.battery_charge,
   battery_runtime_seconds |-> task.status.battery_runtime,
   ups_status |-> task.status.ups_status,
   on_battery |-> task.status.on_battery,
   last_update |-> t,
   on_battery_duration_seconds |-> task.on_battery_duration,
   output_power_watts |-> task.status.output_power]

\* The cell in the middle of the assignment `*m = Some(metrics)`: the fields up
\* to on_battery are written, the other fields and the Option's tag are not.
HalfWritten(old, new) ==
  IF IsNone(old) THEN None
  ELSE Some([Unwrap(old) EXCEPT
               !.battery_charge_percent = new.battery_charge_percent,
               !.battery_runtime_seconds = new.battery_runtime_seconds,
               !.ups_status = new.ups_status,
               !.on_battery = new.on_battery])

\* RwLock::write() is granted: no writer and no reader holds the lock.
WriteLockFree == IsNone(writer) /\ readers = 0

\* Readers that do not wait for the writer.
ReadLockFree_IgnoresWriter == TRUE

\* RwLock::read() is granted: no writer holds the lock.
ReadLockFree == IsNone(writer)

\* A server that does not answer while the monitor thread is in the countdown.
ServerRunning_BlockedByCountdown ==
  config.metrics_enabled /\ pc \notin {"done", "countdown"}

\* The runtime runs its tasks and the server answers while the process lives:
\* main returns when run returns, and the runtime is dropped with the monitor.
ServerRunning == config.metrics_enabled /\ pc # "done"

\* MetricsServer::update_metrics, up to the write lock: the record is built
\* and the lock acquired.
UpdateMetricsLock(task) ==
  /\ ServerRunning
  /\ task \in tasks
  /\ WriteLockFree
  /\ tasks' = tasks \ {task}
  /\ writer' = Some([metrics |-> Metrics(task, now), seq |-> task.seq, stored |-> FALSE])
  /\ response' = None
  /\ UNCHANGED <<client_vars, monitor_vars, next_task, latest, stored_seq, metrics, stable, readers>>

\* The assignment under the write lock, its first part.
UpdateMetricsStore ==
  /\ ServerRunning
  /\ IsSome(writer)
  /\ ~Unwrap(writer).stored
  /\ metrics' = HalfWritten(metrics, Unwrap(writer).metrics)
  /\ writer' = Some([Unwrap(writer) EXCEPT !.stored = TRUE])
  /\ response' = None
  /\ UNCHANGED <<client_vars, monitor_vars, tasks, next_task, latest, stored_seq, stable, readers>>

\* The rest of the assignment, and the guard dropped at the end of update_metrics.
UpdateMetricsUnlock ==
  /\ ServerRunning
  /\ IsSome(writer)
  /\ Unwrap(writer).stored
  /\ metrics' = Some(Unwrap(writer).metrics)
  /\ stable' = Some(Unwrap(writer).metrics)
  /\ stored_seq' = Some(Unwrap(writer).seq)
  /\ writer' = None
  /\ response' = None
  /\ UNCHANGED <<client_vars, monitor_vars, tasks, next_task, latest, readers>>

\* The Authorization headers of the requests: none, the exact value for
\* TokenS3, and a longer token.
Headers ==
  {None,
   Some(BearerPrefix \o TokenS3),
   Some(BearerPrefix \o TokenS3 \o <<"x">>)}

\* The bearer check that accepts any header starting with the expected value.
Authorized_PrefixMatch(bearer_token, header) ==
  IF IsSome(bearer_token)
    THEN IsSome(header)
         /\ StartsWith(Unwrap(header), BearerPrefix \o Unwrap(bearer_token))
    ELSE TRUE

\* handle_metrics, the bearer check: TRUE when the request goes on.
Authorized(bearer_token, header) ==
  IF IsSome(bearer_token)
    THEN IsSome(header) /\ Unwrap(header) = BearerPrefix \o Unwrap(bearer_token)
    ELSE TRUE

\* One sample line of the OpenMetrics text.
Sample(name, m, value) ==
  [name |-> name, ups_name |-> m.ups_name, ups_host |-> m.ups_host, value |-> <<value>>]

\* format_openmetrics: the sample lines in order, then the EOF marker.  The
\* charge ratio is kept as the pair (percent, 100).
FormatOpenmetrics(m) ==
  <<Sample("ups_battery_charge_ratio", m, <<m.battery_charge_percent, 100>>),
    Sample("ups_battery_runtime_seconds", m, m.battery_runtime_seconds),
    Sample("ups_on_battery", m, IF m.on_battery THEN 1 ELSE 0)>>
  \o (IF IsSome(m.on_battery_duration_seconds)
        THEN <<Sample("ups_on_battery_duration_seconds", m,
                      Unwrap(m.on_battery_duration_seconds))>>
        ELSE <<>>)
  \o (IF IsSome(m.output_power_watts)
        THEN <<Sample("ups_output_power_watts", m, Unwrap(m.output_power_watts))>>
        ELSE <<>>)
  \o <<Sample("ups_last_update_timestamp_seconds", m, m.last_update),
       Sample("ups_status_info", m, m.ups_status),
       Sample("# EOF", m, 0)>>

\* The JSON envelope.
JsonMetricsResponse(m, t) == [status |-> "ok", timestamp |-> t, metrics |-> m]

\* An HTTP response with the request it answers.  published: a record was in
\* the cell when the response was decided; read: the cell as the handler read it.
HttpResponse(route, header, code, text, json, samples, published, read) ==
  [route |-> route, header |-> header, code |-> code, text |-> text,
   json |-> json, samples |-> samples, published |-> published, read |-> read]

\* handle_metrics, the 401 response.
Unauthorized(header) ==
  HttpResponse("/metrics", header, 401, "Unauthorized", None, <<>>, IsSome(stable), None)

\* handle_metrics answering 200 with an empty body when nothing is published.
MetricsResponse_EmptyOk(header, cell, format, t) ==
  IF IsSome(cell)
    THEN IF format = "json"
      THEN HttpResponse("/metrics", header, 200, "",
                        Some(JsonMetricsResponse(Unwrap(cell), t)), <<>>, TRUE, cell)
      ELSE HttpResponse("/metrics", header, 200, "",
                        None, FormatOpenmetrics(Unwrap(cell)), TRUE, cell)
    ELSE HttpResponse("/metrics", header, 200, "", None, <<>>, FALSE, cell)

\* handle_metrics, the match on the cell under the read lock.
MetricsResponse(header, cell, format, t) ==
  IF IsSome(cell)
    THEN IF format = "json"
      THEN HttpResponse("/metrics", header, 200, "",
                        Some(JsonMetricsResponse(Unwrap(cell), t)), <<>>, TRUE, cell)
      ELSE HttpResponse("/metrics", header, 200, "",
                        None, FormatOpenmetrics(Unwrap(cell)), TRUE, cell)
    ELSE HttpResponse("/metrics", header, 503, "No metrics available",
                      None, <<>>, FALSE, cell)

\* handle_metrics up to the read lock: the bearer check on the request's
\* header, then the lock.
HandleMetricsAuth ==
  /\ ServerRunning
  /\ \E header \in Headers :
       IF Authorized(config.bearer_token, header)
         THEN /\ ReadLockFree
              /\ readers < NumHandlers
              /\ readers' = readers + 1
              /\ response' = None
         ELSE /\ response' = Some(Unauthorized(header))
              /\ UNCHANGED readers
  /\ UNCHANGED <<client_vars, monitor_vars, tasks, next_task, latest, stored_seq, writer,
                 metrics, stable>>

\* handle_metrics under the read lock, for a call whose header passed the
\* check: the response, and the guard dropped.
HandleMetricsRead ==
  /\ ServerRunning
  /\ readers > 0
  /\ \E header \in {x \in Headers : Authorized(config.bearer_token, x)} :
       response' = Some(MetricsResponse(header, metrics, config.format, now))
  /\ readers' = readers - 1
  /\ UNCHANGED <<client_vars, monitor_vars, tasks, next_task, latest, stored_seq, writer,
                 metrics, stable>>

\* handle_health
HandleHealth ==
  /\ ServerRunning
  /\ response' = Some(HttpResponse("/health", None, 200, "OK", None, <<>>,
                                   IsSome(stable), None))
  /\ UNCHANGED <<client_vars, monitor_vars, tasks, next_task, latest, stored_seq, writer, metrics,
                 stable, readers>>

\* The configurations of the whole system: the metrics server is on, the
\* shutdown feature is on with the default command, with and without a grace
\* period.
SystemConfigs ==
  {c \in MonitorConfigs :
     /\ c.shutdown_enabled
     /\ c.on_battery_seconds = 1
     /\ c.shutdown_command = CmdDefault
     /\ c.poll_interval = 1
     /\ ~c.credentials}

\* UpsMonitor::new and the entry of run, with the metrics server on.
Init ==
  /\ config \in {Merge(c, m) : c \in SystemConfigs, m \in MetricsOn}
  /\ now = 0
  /\ pc = "cycle"
  /\ on_battery_since = None
  /\ shutdown_scheduled = FALSE
  /\ status = NotRead
  /\ last_on_battery = None
  /\ countdown_i = 0
  /\ scheduled_at = None
  /\ command_result = "none"
  /\ commands_run = 0
  /\ tasks = {}
  /\ next_task = 0
  /\ latest = None
  /\ stored_seq = None
  /\ writer = None
  /\ metrics = None
  /\ stable = None
  /\ readers = 0
  /\ response = None
  /\ server = NoSession
  /\ listing = <<>>
  /\ outcome = NoCall

Next ==
  \/ MonitorCycle(PlainReads)
  \/ CountdownStep
  \/ ExecuteCommand
  \/ Sleep
  \/ \E task \in tasks : UpdateMetricsLock(task)
  \/ UpdateMetricsStore
  \/ UpdateMetricsUnlock
  \/ HandleMetricsAuth
  \/ HandleMetricsRead
  \/ HandleHealth

Spec == Init /\ [][Next]_vars

\* --------------------------------------------- UpsClient calls, one by one
\* The sessions in which only the connect and the handshake vary; the four
\* variable reads are answered.
HandshakeSessions ==
  {s \in Sessions :
     /\ s.charge = L_charge_50 /\ s.runtime = L_runtime_600
     /\ s.status = L_status_OL /\ s.power = L_power_120}

\* The configurations of a client call: only the credentials matter.
ClientConfigs ==
  {c \in MonitorConfigs :
     /\ ~c.shutdown_enabled
     /\ c.on_battery_seconds = 0
     /\ c.shutdown_command = CmdDefault
     /\ c.shutdown_grace_period = 0
     /\ c.poll_interval = 1}

\* UpsClient::new, and the server's side of the one connection to come: any
\* session with an empty listing, or any listing in a handshake session.
InitClient ==
  /\ config \in {Merge(c, MetricsOff) : c \in ClientConfigs}
  /\ \/ server \in Sessions /\ listing = <<>>
     \/ server \in HandshakeSessions /\ listing \in Listings
  /\ outcome = NoCall
  /\ now = 0
  /\ pc = "cycle"
  /\ on_battery_since = None
  /\ shutdown_scheduled = FALSE
  /\ status = NotRead
  /\ last_on_battery = None
  /\ countdown_i = 0
  /\ scheduled_at = None
  /\ command_result = "none"
  /\ commands_run = 0
  /\ tasks = {}
  /\ next_task = 0
  /\ latest = None
  /\ stored_seq = None
  /\ writer = None
  /\ metrics = None
  /\ stable = None
  /\ readers = 0
  /\ response = None

\* One call of UpsClient::get_status on a fresh connection.
CallGetStatus ==
  /\ outcome = NoCall
  /\ outcome' = [op |-> "get_status",
                 result |-> GetStatusRun(server, config.credentials).result,
                 sent |-> GetStatusRun(server, config.credentials).sent]
  /\ UNCHANGED <<server, listing, monitor_vars, metrics_vars>>

\* One call of UpsClient::list_vars on a fresh connection.
CallListVars ==
  /\ outcome = NoCall
  /\ outcome' = [op |-> "list_vars",
                 result |-> ListVarsRun(server, config.credentials, listing).result,
                 sent |-> ListVarsRun(server, config.credentials, listing).sent]
  /\ UNCHANGED <<server, listing, monitor_vars, metrics_vars>>

NextClient == CallGetStatus \/ CallListVars

SpecClient == InitClient /\ [][NextClient]_vars

\* ------------------------------------ the monitor with varied thresholds
\* The shutdown feature on, a time trigger of two seconds, and thresholds at
\* their defaults and at zero.
ThresholdConfigs ==
  [shutdown_enabled : {TRUE},
   on_battery_seconds : {2},
   battery_percent_threshold : {0, DefaultBatteryPercentThreshold},
   runtime_threshold : {0, DefaultRuntimeThreshold},
   shutdown_command : {CmdDefault},
   shutdown_grace_period : {0, 2},
   poll_interval : {1},
   credentials : BOOLEAN]

\* UpsMonitor::new and the entry of run, with the metrics server off and the
\* thresholds varied.
InitThresholds ==
  /\ config \in {Merge(c, MetricsOff) : c \in ThresholdConfigs}
  /\ now = 0
  /\ pc = "cycle"
  /\ on_battery_since = None
  /\ shutdown_scheduled = FALSE
  /\ status = NotRead
  /\ last_on_battery = None
  /\ countdown_i = 0
  /\ scheduled_at = None
  /\ command_result = "none"
  /\ commands_run = 0
  /\ tasks = {}
  /\ next_task = 0
  /\ latest = None
  /\ stored_seq = None
  /\ writer = None
  /\ metrics = None
  /\ stable = None
  /\ readers = 0
  /\ response = None
  /\ server = NoSession
  /\ listing = <<>>
  /\ outcome = NoCall

NextThresholds == MonitorCycle(TracedReads) \/ CountdownStep \/ ExecuteCommand \/ Sleep

SpecThresholds == InitThresholds /\ [][NextThresholds]_vars

\* --------------------------- the monitor of a UPS that stays on battery
\* The configurations with the shutdown feature on.
EnabledConfigs == {c \in MonitorConfigs : c.shutdown_enabled}

\* UpsMonitor::new and the entry of run, with the metrics server off and the
\* shutdown feature on.
InitOnBattery ==
  /\ config \in {Merge(c, MetricsOff) : c \in EnabledConfigs}
  /\ now = 0
  /\ pc = "cycle"
  /\ on_battery_since = None
  /\ shutdown_scheduled = FALSE
  /\ status = NotRead
  /\ last_on_battery = None
  /\ countdown_i = 0
  /\ scheduled_at = None
  /\ command_result = "none"
  /\ commands_run = 0
  /\ tasks = {}
  /\ next_task = 0
  /\ latest = None
  /\ stored_seq = None
  /\ writer = None
  /\ metrics = None
  /\ stable = None
  /\ readers = 0
  /\ response = None
  /\ server = NoSession
  /\ listing = <<>>
  /\ outcome = NoCall

NextOnBattery == MonitorCycle(OnBatteryReads) \/ CountdownStep \/ ExecuteCommand \/ Sleep

\* run is the only thread of the monitor: as long as a step of the loop can
\* be taken (the read returns, the sleep ends, the command returns) it is.
SpecOnBattery ==
  InitOnBattery /\ [][NextOnBattery]_vars /\ WF_vars(NextOnBattery)

\* ================================================================== claims
\* The snapshots a status read can return.
Snapshots == {Val(x.result) : x \in {y \in AllReads[TRUE] : y.result.ok}}

\* The three trigger conditions for snapshot st, with on_battery_since = since
\* at time t.
TimeTrigger(since, t) == IsSome(since) /\ t - Unwrap(since) >= config.on_battery_seconds
ChargeTrigger(st) == st.battery_charge <= config.battery_percent_threshold
RuntimeTrigger(st) == st.battery_runtime <= config.runtime_threshold

\* C1: on_battery_since is set if and only if the most recent successfully
\* read snapshot was on battery (no snapshot read yet: not set); failed
\* cycles in between change nothing.
C1_SinceIffLastSnapshotOnBattery ==
  IsSome(on_battery_since) <=> (last_on_battery = Some(TRUE))

\* C1 witness: on_battery_since is still set after an on-battery snapshot was
\* followed by a failed cycle.
C1_Witness ==
  /\ IsSome(on_battery_since)
  /\ last_on_battery = Some(TRUE)
  /\ ~status.ok
  /\ status.error = "ups_error"

\* C2: shutdown_scheduled is never reset (so it is set at most once, at one
\* time), and while it is set should_shutdown is false for every snapshot and
\* execute_shutdown returns at its entry.
C2_FlagOneWay ==
  /\ [][shutdown_scheduled =>
          shutdown_scheduled' /\ scheduled_at' = scheduled_at]_vars
  /\ [](shutdown_scheduled =>
          /\ \A st \in Snapshots :
               \A since \in {on_battery_since, Some(0), None} :
                 ~ShouldShutdown(config, shutdown_scheduled, since, st, now)
          /\ ~ExecuteShutdownEnters(shutdown_scheduled))

\* C2 witness: the flag is set and the run is over.
C2_Witness == shutdown_scheduled /\ pc = "done" /\ IsSome(scheduled_at)

\* C3: the executor has been invoked (the flag is set, a command was run)
\* only by a cycle whose read succeeded with an on-battery snapshot, with
\* the shutdown feature enabled, and with one of the three triggers holding
\* at the time of that cycle.
C3_ShutdownOnlyWhenTriggered ==
  /\ (commands_run > 0 \/ command_result # "none" \/ pc \in {"countdown", "done"}
        => shutdown_scheduled)
  /\ (shutdown_scheduled <=> IsSome(scheduled_at))
  /\ (shutdown_scheduled =>
        /\ status.ok
        /\ config.shutdown_enabled
        /\ Val(status).on_battery
        /\ \/ TimeTrigger(on_battery_since, Unwrap(scheduled_at))
           \/ ChargeTrigger(Val(status))
           \/ RuntimeTrigger(Val(status)))

\* C3 witness: the command has run after an on-battery snapshot triggered.
C3_Witness ==
  /\ commands_run = 1
  /\ status.ok
  /\ Val(status).on_battery
  /\ ChargeTrigger(Val(status))

\* C4: after a successful cycle with an on-battery snapshot and the shutdown
\* feature enabled, the shutdown has been triggered as soon as one of the
\* three conditions holds, whatever the other two.  (Before the next cycle
\* starts the clock still shows the time of the last cycle.)
C4_EachTriggerSuffices ==
  ( /\ pc # "cycle"
    /\ status.ok
    /\ Val(status).on_battery
    /\ config.shutdown_enabled
    /\ \/ TimeTrigger(on_battery_since, IF IsSome(scheduled_at) THEN Unwrap(scheduled_at) ELSE now)
       \/ ChargeTrigger(Val(status))
       \/ RuntimeTrigger(Val(status)) )
  => shutdown_scheduled

\* C4 witness: the charge is exactly at its threshold, the runtime above its
\* threshold and no time has elapsed on battery, and the shutdown was triggered.
C4_Witness ==
  /\ shutdown_scheduled
  /\ status.ok
  /\ Val(status).battery_charge = config.battery_percent_threshold
  /\ ~RuntimeTrigger(Val(status))
  /\ config.on_battery_seconds > 0
  /\ scheduled_at = on_battery_since

\* C4, second case reached: the time trigger alone fires.
C4_TimeTriggerAlone ==
  /\ shutdown_scheduled
  /\ status.ok
  /\ ~ChargeTrigger(Val(status))
  /\ ~RuntimeTrigger(Val(status))
  /\ config.on_battery_seconds > 0

\* C5: a cycle whose status read fails leaves the loop running: the next
\* step is the sleep of the poll interval (no immediate retry, no exit), the
\* monitor state is untouched, and after the sleep the next cycle runs.
C5_FailedCycleOnlySkipped ==
  [][ /\ (pc = "cycle" /\ ~status'.ok =>
            /\ pc' = "sleep"
            /\ UNCHANGED <<on_battery_since, shutdown_scheduled, scheduled_at,
                           command_result, commands_run>>)
      /\ (pc = "sleep" =>
            /\ pc' = "cycle"
            /\ now' = now + config.poll_interval) ]_vars

\* C5 witness: a cycle failed on an ERR response, the poll interval passed and
\* the next cycle is about to run.
C5_Witness ==
  /\ pc = "cycle"
  /\ now > 0
  /\ ~status.ok
  /\ status.error = "ups_error"

\* C6: when the executor has returned, whatever became of the command, the
\* loop is over, and once it is over the monitor never polls again.
C6_ExitAfterExecutor ==
  /\ [](command_result # "none" => pc = "done")
  /\ [][pc = "countdown" /\ pc' # "countdown" => pc' = "done"]_vars
  /\ [][pc = "done" => pc' = "done" /\ status' = status /\ now' = now]_vars

\* C6 witness: the command could not be spawned and the loop is over.
C6_Witness == pc = "done" /\ command_result = "spawn_error"

\* C6, other outcomes reached.
C6_WitnessEmpty == pc = "done" /\ command_result = "empty"
C6_WitnessFailed == pc = "done" /\ command_result = "failed"
C6_WitnessSuccess == pc = "done" /\ command_result = "success"

\* C7: during the countdown the flag is already set and exactly one second
\* passes per step; the command runs at most once, and only when all
\* grace-period steps have been counted.
C7_ExecutorOrder ==
  /\ (pc = "countdown" =>
        /\ shutdown_scheduled
        /\ countdown_i \in 0..config.shutdown_grace_period
        /\ now = Unwrap(scheduled_at) + (config.shutdown_grace_period - countdown_i))
  /\ commands_run <= 1
  /\ (command_result # "none" =>
        /\ shutdown_scheduled
        /\ countdown_i = 0
        /\ now = Unwrap(scheduled_at) + config.shutdown_grace_period)

\* C7 witness: the command has run after a countdown of two steps.
C7_Witness ==
  /\ commands_run = 1
  /\ config.shutdown_grace_period = 2
  /\ now = Unwrap(scheduled_at) + 2

\* The request of the response carries exactly `Bearer <token>`.
ExactBearer(r) ==
  /\ IsSome(config.bearer_token)
  /\ IsSome(r.header)
  /\ Unwrap(r.header) = BearerPrefix \o Unwrap(config.bearer_token)

\* C8 as stated: every /metrics response decided while no record has been
\* published is a 503, whatever the request's Authorization header.
C8_Original_503WheneverUnpublished ==
  IsSome(response) /\ Unwrap(response).route = "/metrics"
                   /\ ~Unwrap(response).published
    => Unwrap(response).code = 503

\* C8 amended: while no record has been published, a /metrics request that
\* passes the bearer check (no token configured, or exactly `Bearer <token>`)
\* is answered 503, and one that fails it is answered 401.
C8_503WhenUnpublishedAndAuthorized ==
  IsSome(response) /\ Unwrap(response).route = "/metrics"
                   /\ ~Unwrap(response).published
    => LET r == Unwrap(response)
       IN  IF IsNone(config.bearer_token) \/ ExactBearer(r)
             THEN r.code = 503 /\ r.text = "No metrics available"
             ELSE r.code = 401

\* C8 witness: a 503 for a request with the exact token, nothing published.
C8_Witness ==
  /\ IsSome(response)
  /\ Unwrap(response).route = "/metrics"
  /\ Unwrap(response).code = 503
  /\ ExactBearer(Unwrap(response))
  /\ IsNone(stable)

\* C9: a /metrics response is a 401 exactly when a token is configured and
\* the Authorization header is absent or differs from `Bearer <token>`.
C9_BearerAuth ==
  IsSome(response) /\ Unwrap(response).route = "/metrics"
    => LET r == Unwrap(response)
       IN  (r.code = 401) <=> (IsSome(config.bearer_token) /\ ~ExactBearer(r))

\* C9 witness: a 401 for a header that extends the exact value, with a
\* record published.
C9_Witness ==
  /\ IsSome(response)
  /\ Unwrap(response).code = 401
  /\ Unwrap(response).header = Some(BearerPrefix \o TokenS3 \o <<"x">>)
  /\ IsSome(stable)

\* C9, other cases reached: no token configured and no header, answered 200;
\* the exact header, answered 200.
C9_WitnessNoToken ==
  /\ IsSome(response)
  /\ IsNone(config.bearer_token)
  /\ Unwrap(response).route = "/metrics"
  /\ Unwrap(response).header = None
  /\ Unwrap(response).code = 200
C9_WitnessExact ==
  /\ IsSome(response)
  /\ ExactBearer(Unwrap(response))
  /\ Unwrap(response).code = 200

\* C10: the writer holds the lock alone, the cell is a completely written
\* record whenever no writer holds the lock, and what a handler reads is the
\* record of the last completed publish or the complete record being
\* published, never a mix of the two.
C10_NoTornRead ==
  /\ [](IsSome(writer) => readers = 0)
  /\ [](IsNone(writer) => metrics = stable)
  /\ [][readers' = readers - 1 =>
          /\ IsSome(response')
          /\ Unwrap(response').read \in
               {stable} \cup (IF IsSome(writer) THEN {Some(Unwrap(writer).metrics)} ELSE {})]_vars

\* C10 witness: two handlers hold the read lock on a published record while
\* the next publish is waiting for the lock.
C10_Witness ==
  /\ readers = 2
  /\ IsSome(metrics)
  /\ tasks # {}
  /\ \E task \in tasks : Metrics(task, now) # Unwrap(metrics)

\* C10, other case reached: a handler read the record right after a publish
\* replaced an older one.
C10_WitnessReadNew ==
  /\ IsSome(response)
  /\ Unwrap(response).code = 200
  /\ IsSome(Unwrap(response).read)
  /\ Unwrap(Unwrap(response).read).last_update > 0

\* Every publish has taken effect: no update_metrics task is pending or running.
AllPublished == tasks = {} /\ IsNone(writer)

\* Two records built from the same snapshot and duration: equal but for the
\* time of the write.
SameSnapshot(a, b) == a = [b EXCEPT !.last_update = a.last_update]

\* C11: publishing is last-write-wins in poll order: a publish never replaces
\* the record of a later cycle by the (different) record of an earlier one,
\* and once every publish has taken effect the cell holds the record built
\* from the snapshot of the most recent successful cycle.
C11_LastWriteWinsInPollOrder ==
  /\ IsSome(writer) /\ IsSome(stored_seq) /\ Unwrap(writer).seq < Unwrap(stored_seq)
       => SameSnapshot(Unwrap(writer).metrics, Unwrap(stable))
  /\ AllPublished /\ IsSome(latest)
       => /\ IsSome(metrics)
          /\ SameSnapshot(Unwrap(metrics), Metrics(Unwrap(latest), 0))

\* The names of the samples of an OpenMetrics text.
SampleNames(samples) == {samples[i].name : i \in DOMAIN samples}

\* C12: in every record served as OpenMetrics text, the
\* ups_on_battery_duration_seconds block is absent when the record is not on
\* battery (ups_on_battery 0), and the ups_output_power_watts block is absent
\* when the record has no output power.
C12_OptionalBlocksOmitted ==
  IsSome(response) /\ Unwrap(response).route = "/metrics"
                   /\ Unwrap(response).code = 200
                   /\ config.format = "openmetrics"
    => LET r == Unwrap(response)
           m == Unwrap(r.read)
       IN  /\ r.samples = FormatOpenmetrics(m)
           /\ ~m.on_battery
                => "ups_on_battery_duration_seconds" \notin SampleNames(r.samples)
           /\ IsNone(m.output_power_watts)
                => "ups_output_power_watts" \notin SampleNames(r.samples)

\* C13: while the countdown of execute_shutdown is in progress the server
\* still answers: a /health request is answered 200 "OK", a /metrics request
\* gets the read lock as soon as no publish holds it and is answered with the
\* last published record (503 when none was ever published).
C13_ServerAnswersDuringCountdown ==
  pc = "countdown" =>
    /\ ENABLED HandleHealth
    /\ IsNone(writer) /\ readers < NumHandlers => ENABLED HandleMetricsAuth
    /\ readers > 0 => ENABLED HandleMetricsRead
    /\ IsSome(response) =>
         LET r == Unwrap(response)
         IN  /\ r.route = "/health" => r.code = 200 /\ r.text = "OK"
             /\ r.route = "/metrics" /\ r.code # 401
                  => /\ r.read = stable
                     /\ r.code = IF IsSome(stable) THEN 200 ELSE 503

\* C13 witness: one second into the countdown, with seconds left, /metrics
\* is answered 200 with the published record.
C13_Witness ==
  /\ pc = "countdown"
  /\ countdown_i >= 1
  /\ IsSome(scheduled_at) /\ now > Unwrap(scheduled_at)
  /\ IsSome(response)
  /\ Unwrap(response).route = "/metrics"
  /\ Unwrap(response).code = 200
  /\ IsSome(stable) /\ Unwrap(response).read = stable

\* C13, other case reached: /health answered during the countdown.
C13_WitnessHealth ==
  /\ pc = "countdown"
  /\ countdown_i >= 1
  /\ IsSome(scheduled_at) /\ now > Unwrap(scheduled_at)
  /\ IsSome(response)
  /\ Unwrap(response).route = "/health"

\* C14: on a connection that is open (and authenticated when credentials are
\* set), get_status fails exactly when the read of battery.charge,
\* battery.runtime or ups.status fails (an ERR line, a malformed line, no
\* line); whatever becomes of the read of output.power, the snapshot is
\* returned, with the three other fields as read and with output power
\* absent when that read failed.
C14_OnlyFirstThreeReadsFail ==
  outcome.op = "get_status" /\ Connect(server, config.credentials).result.ok
    => LET charge == GetVar(server.charge)
           runtime == GetVar(server.runtime)
           raw == GetVar(server.status)
           power == GetVar(server.power)
       IN  /\ outcome.result.ok <=> (charge.ok /\ runtime.ok /\ raw.ok)
           /\ outcome.result.ok
                => LET st == Val(outcome.result)
                   IN  /\ st.battery_charge = UnwrapOr(ParseF64(Val(charge)), 0)
                       /\ st.battery_runtime = UnwrapOr(ParseU64(Val(runtime)), 0)
                       /\ st.ups_status = Val(raw)
                       /\ ~power.ok => IsNone(st.output_power)
                       /\ power.ok => st.output_power = ParseF64(Val(power))

\* C14 witness: the read of output.power broke the connection and the
\* snapshot was returned without output power.
C14_Witness ==
  /\ outcome.op = "get_status"
  /\ server.power = Reset
  /\ outcome.result.ok
  /\ IsNone(Val(outcome.result).output_power)
  /\ Val(outcome.result).battery_charge = 15

\* C14, other cases reached: an ERR answer to output.power with the snapshot
\* returned; an ERR answer to battery.charge, a malformed answer to
\* ups.status and a broken read of battery.runtime, each failing the call.
C14_WitnessPowerErr ==
  /\ outcome.op = "get_status"
  /\ server.power = L_ERR_VAR_NOT_SUPPORTED
  /\ outcome.result.ok
C14_WitnessChargeErr ==
  /\ outcome.op = "get_status"
  /\ server.connect /\ ~config.credentials
  /\ server.charge = L_ERR_UNKNOWN_UPS
  /\ outcome.result = Err("ups_error")
C14_WitnessStatusMalformed ==
  /\ outcome.op = "get_status"
  /\ server.status = L_status_short
  /\ outcome.result = Err("invalid_response")
C14_WitnessRuntimeReset ==
  /\ outcome.op = "get_status"
  /\ server.runtime = Reset
  /\ outcome.result = Err("io")

\* A line was read and it contains OK, whatever the case of its letters.
SaysOk(reply) == reply.io = "line" /\ Contains(ToUppercase(reply.text), W_OK)

\* The commands of a call that come after the handshake.
AfterHandshake == {GET_CHARGE, GET_RUNTIME, GET_STATUS, GET_POWER, LIST_VAR}

\* C15: with a user name and a password configured, a call on an open
\* connection writes USERNAME first; PASSWORD is written, second, exactly when
\* the answer to USERNAME contains OK in any case; a GET VAR or LIST VAR is
\* written, after both, only when the answer to PASSWORD contains OK too; a
\* handshake that failed at either step fails the call.
C15_HandshakeOrder ==
  outcome.op # "none" /\ config.credentials /\ server.connect
    => LET sent == outcome.sent
           Sent(c) == \E i \in DOMAIN sent : sent[i] = c
       IN  /\ sent # <<>> /\ sent[1] = "USERNAME"
           /\ \A i \in DOMAIN sent : sent[i] = "USERNAME" => i = 1
           /\ Sent("PASSWORD") <=> SaysOk(server.username)
           /\ \A i \in DOMAIN sent : sent[i] = "PASSWORD" => i = 2
           /\ (\E c \in AfterHandshake : Sent(c))
                <=> (SaysOk(server.username) /\ SaysOk(server.password))
           /\ ~(SaysOk(server.username) /\ SaysOk(server.password))
                => ~outcome.result.ok

\* C15 witness: the server refused the user name; only USERNAME was written
\* and the status read failed.
C15_Witness ==
  /\ outcome.op = "get_status"
  /\ config.credentials
  /\ server.username = L_ACCESS_DENIED
  /\ server.password = L_OK
  /\ outcome.sent = <<"USERNAME">>
  /\ outcome.result = Err("auth_username")

\* C15, other cases reached: the password refused in a list_vars call; a
\* lower-case ok accepted at both steps and the four reads made.
C15_WitnessPassword ==
  /\ outcome.op = "list_vars"
  /\ config.credentials
  /\ server.username = L_ok_lower
  /\ server.password = Eof
  /\ outcome.sent = <<"USERNAME", "PASSWORD">>
  /\ outcome.result = Err("auth_password")
C15_WitnessAccepted ==
  /\ outcome.op = "get_status"
  /\ config.credentials
  /\ server.username = L_ok_lower
  /\ server.password = L_ok_lower
  /\ outcome.sent = <<"USERNAME", "PASSWORD", GET_CHARGE, GET_RUNTIME, GET_STATUS, GET_POWER>>
  /\ outcome.result.ok

\* A line of the listing that starts with END LIST.
IsEndList(reply) ==
  reply.io = "line" /\ StartsWith(StripNewline(reply.text), W_END_LIST)

\* A VAR line with a variable name and a value.
IsVarLine(reply) ==
  /\ reply.io = "line"
  /\ StartsWith(StripNewline(reply.text), W_VAR)
  /\ Len(SplitWhitespace(StripNewline(reply.text))) >= 4

\* What the server sent before its first END LIST line: all of it when there
\* is no such line.
BeforeEndList(lines) ==
  LET ends == {i \in DOMAIN lines : IsEndList(lines[i])}
  IN  IF ends = {} THEN lines
      ELSE SubSeq(lines, 1, (CHOOSE i \in ends : \A j \in ends : i <= j) - 1)

\* The variables of the VAR lines of a sequence of lines, in its order.
VariablesOf(lines) ==
  LET kept == SelectSeq(lines, IsVarLine)
  IN  [i \in 1..Len(kept) |-> VarEntry(SplitWhitespace(StripNewline(kept[i].text)))]

\* C16: on an open connection, a list_vars call whose reads do not break
\* before the first END LIST line returns exactly the variables of the VAR
\* lines received before that line (before the end of the stream when there
\* is none), in the order received, duplicates kept; nothing after the
\* first END LIST line counts.
C16_ListStopsAtEndList ==
  outcome.op = "list_vars" /\ Connect(server, config.credentials).result.ok
    => LET head == BeforeEndList(listing)
       IN  IF \E i \in DOMAIN head : head[i].io = "reset"
             THEN outcome.result = Err("io")
             ELSE outcome.result = Ok(VariablesOf(head))

\* C16 witness: a VAR line, END LIST, and a well-formed VAR line after it,
\* which is not returned.
C16_Witness ==
  /\ outcome.op = "list_vars"
  /\ listing = <<LL_charge, LL_END, LL_mfr>>
  /\ outcome.result =
       Ok(<<<< <<"b", "a", "t", "t", "e", "r", "y", ".", "c", "h", "a", "r", "g", "e">>,
               <<"5", "0">> >>>>)

\* C16, other cases reached: a duplicate kept, in a stream that ends without
\* END LIST; two variables in the order received, a short VAR line between
\* them skipped.
C16_WitnessDuplicate ==
  /\ outcome.op = "list_vars"
  /\ listing = <<LL_mfr, LL_mfr>>
  /\ outcome.result.ok
  /\ Len(Val(outcome.result)) = 2
  /\ Val(outcome.result)[1] = Val(outcome.result)[2]
  /\ Val(outcome.result)[1] = << <<"u", "p", "s", ".", "m", "f", "r">>, <<"A", " ", "B">> >>
C16_WitnessOrder ==
  /\ outcome.op = "list_vars"
  /\ listing = <<LL_mfr, LL_short, LL_charge>>
  /\ outcome.result.ok
  /\ Len(Val(outcome.result)) = 2
  /\ Val(outcome.result)[1][2] = <<"A", " ", "B">>
  /\ Val(outcome.result)[2][2] = <<"5", "0">>

\* C17: when the shutdown command splits into no token, no program is ever
\* started in the run, and the executor, once it has set the flag and the
\* grace period has passed, returns with the command reported empty.
C17_EmptyCommandSpawnsNothing ==
  SplitWhitespace(config.shutdown_command) = <<>>
    => /\ commands_run = 0
       /\ command_result \in {"none", "empty"}
       /\ command_result = "empty"
            => /\ shutdown_scheduled
               /\ countdown_i = 0
               /\ now >= Unwrap(scheduled_at) + config.shutdown_grace_period
       /\ pc = "done" => command_result = "empty"

\* C17 witness: a blank command, a grace period of two seconds; the executor
\* returned after the countdown and nothing was started.
C17_Witness ==
  /\ config.shutdown_command = CmdBlank
  /\ config.shutdown_grace_period = 2
  /\ pc = "done"
  /\ command_result = "empty"
  /\ commands_run = 0
  /\ now >= Unwrap(scheduled_at) + 2

\* The record of the last successful cycle is the one in the cell.
LatestStored ==
  /\ IsSome(latest)
  /\ stored_seq = Some(Unwrap(latest).seq)
  /\ IsSome(metrics)
  /\ SameSnapshot(Unwrap(metrics), Metrics(Unwrap(latest), 0))

\* C18: the record of the snapshot that triggers the shutdown is in the cell
\* when the countdown starts, stays there during the countdown, and is there
\* when the shutdown command has been executed.
C18_PublishedBeforeShutdown ==
  /\ pc = "countdown" => LatestStored
  /\ commands_run > 0 => LatestStored

\* The value the server gave for a variable is not a number of the kind parsed.
NotAFloat(reply) == GetVar(reply).ok /\ IsNone(ParseF64(Val(GetVar(reply))))
NotAnInteger(reply) == GetVar(reply).ok /\ IsNone(ParseU64(Val(GetVar(reply))))

\* C19: a cycle whose reads are all answered succeeds even when the value of
\* battery.charge or battery.runtime is not a number, the field being 0; and
\* then, with shutdown enabled, the flag unset and the snapshot on battery,
\* the cycle triggers the shutdown when the runtime is not a number, whatever
\* the runtime threshold, and when the charge is not a number and the charge
\* threshold is at least 0, however short the time on battery.
C19_UnparsableReadsAsZero ==
  [][pc = "cycle" /\ pc' # "cycle" /\ server' # NoSession
       => /\ status'.ok
          /\ NotAFloat(server'.charge) => Val(status').battery_charge = 0
          /\ NotAnInteger(server'.runtime) => Val(status').battery_runtime = 0
          /\ /\ config.shutdown_enabled /\ ~shutdown_scheduled
             /\ Val(status').on_battery
             /\ \/ NotAnInteger(server'.runtime)
                \/ NotAFloat(server'.charge) /\ config.battery_percent_threshold >= 0
             => /\ shutdown_scheduled'
                /\ pc' = "countdown"
                /\ scheduled_at' = Some(now')]_vars

\* C19 witness: the first on-battery snapshot, runtime answered "-1" with a
\* good charge and a runtime threshold of 0; the shutdown is triggered at once.
C19_Witness ==
  /\ pc = "countdown"
  /\ server # NoSession
  /\ server.runtime = L_runtime_bad /\ server.charge = L_charge_50
  /\ config.runtime_threshold = 0
  /\ Val(status).battery_runtime = 0
  /\ scheduled_at = Some(now)
  /\ on_battery_since = Some(now)

\* C19, other case reached: charge answered "n/a" with a good runtime and a
\* charge threshold of 0.
C19_WitnessCharge ==
  /\ pc = "countdown"
  /\ server # NoSession
  /\ server.charge = L_charge_bad /\ server.runtime = L_runtime_600
  /\ config.battery_percent_threshold = 0
  /\ Val(status).battery_charge = 0
  /\ scheduled_at = Some(now)
  /\ on_battery_since = Some(now)

\* The latest time at which a run that reads on-battery snapshots only can
\* come to the end of its countdown: the first read, the cycles up to the
\* first one past on_battery_seconds, the grace period.
LatestEnd(cfg) ==
  MaxDelay
  + (IF cfg.on_battery_seconds = 0 THEN 0
     ELSE cfg.on_battery_seconds - 1 + cfg.poll_interval + MaxDelay)
  + cfg.shutdown_grace_period

\* C20: with shutdown enabled and every read returning an on-battery snapshot
\* with charge and runtime above their thresholds, a run that the clock of
\* the model lets come to its end does: the shutdown is triggered, the
\* executor runs and the loop terminates.
C20_TimeTriggerLiveness ==
  LatestEnd(config) <= MaxTime
    => <>(pc = "done" /\ shutdown_scheduled /\ command_result # "none")

\* C20 witness: with on_battery_seconds 1 the loop ended, the shutdown set
\* off one second or more after the first on-battery snapshot, charge and
\* runtime above their thresholds.
C20_Witness ==
  /\ pc = "done"
  /\ config.on_battery_seconds = 1
  /\ LatestEnd(config) <= MaxTime
  /\ shutdown_scheduled
  /\ Unwrap(scheduled_at) >= Unwrap(on_battery_since) + 1
  /\ Val(status).battery_charge > config.battery_percent_threshold
  /\ Val(status).battery_runtime > config.runtime_threshold
  /\ command_result # "none"

\* The last status read of monitor_cycle failed.
ReadFailed(r) == ~r.ok /\ r # NotRead

\* The monitor's part of a failed cycle: in a step that ends with the last
\* read failed (the failed cycle itself, the sleep after it, a step of the
\* server meanwhile) on_battery_since and shutdown_scheduled are left as
\* they were, no countdown starts and no command runs.
FailedCycleFrame ==
  ReadFailed(status') =>
    /\ UNCHANGED <<on_battery_since, shutdown_scheduled, scheduled_at,
                   command_result, commands_run>>
    /\ pc' # "countdown"

\* C21: a cycle whose status read fails changes nothing: on_battery_since,
\* shutdown_scheduled and the published record stay as they were, no shutdown
\* is started; while reads keep failing no shutdown is triggered and the
\* record /metrics serves stays the one published before the failures.
C21_FailedCycleChangesNothing ==
  [][ /\ FailedCycleFrame
      /\ (ReadFailed(status') => stable' = stable) ]_vars

\* C21, the monitor's part alone.
C21_MonitorFrameOnly == [][FailedCycleFrame]_vars

\* The step is a cycle whose read succeeds, with the snapshot on battery or
\* on line.
OnBatteryCycle == pc = "cycle" /\ status'.ok /\ Val(status').on_battery
OnLineCycle == pc = "cycle" /\ status'.ok /\ ~Val(status').on_battery

\* C22: on_battery_since is recorded only by an on-battery snapshot read
\* while it is not set, with the time of that snapshot; once set, every step
\* but a successful on-line snapshot (a later on-battery snapshot, a failed
\* cycle, a sleep) keeps it, so the elapsed time of the time trigger grows by
\* exactly the time that passes, failed cycles included, and never decreases.
C22_SinceNotRefreshed ==
  [][ /\ (IsNone(on_battery_since) /\ IsSome(on_battery_since') => OnBatteryCycle)
      /\ (IsNone(on_battery_since) /\ OnBatteryCycle => on_battery_since' = Some(now'))
      /\ (IsSome(on_battery_since) /\ ~OnLineCycle =>
            /\ on_battery_since' = on_battery_since
            /\ Elapsed(on_battery_since', now')
                 = Elapsed(on_battery_since, now) + (now' - now)
            /\ Elapsed(on_battery_since', now') >= Elapsed(on_battery_since, now)) ]_vars

\* C22 witness: a failed cycle that took a second, two seconds after the
\* first on-battery snapshot, which on_battery_since still names.
C22_Witness ==
  /\ ReadFailed(status)
  /\ pc = "sleep"
  /\ last_on_battery = Some(TRUE)
  /\ on_battery_since = Some(0)
  /\ now = 2
  /\ config.poll_interval = 1

\* C22, other case reached: a later on-battery snapshot, three seconds after
\* the first one, did not refresh on_battery_since.
C22_WitnessLaterSnapshot ==
  /\ status.ok
  /\ Val(status).on_battery
  /\ pc = "sleep"
  /\ on_battery_since = Some(0)
  /\ now = 3

\* C23: after a successful cycle with an on-battery snapshot on_battery_since
\* is set, and the decision of that cycle is the one the triggers give with
\* the updated on_battery_since: with shutdown enabled and the flag not set,
\* the shutdown starts exactly when the time, charge or runtime trigger
\* holds; with on_battery_seconds = 0 it starts at the on-battery snapshot
\* that sets on_battery_since, the first one.
C23_SinceSetBeforeTriggers ==
  [][ OnBatteryCycle =>
        /\ IsSome(on_battery_since')
        /\ (config.shutdown_enabled /\ ~shutdown_scheduled =>
              /\ shutdown_scheduled'
                   <=> \/ TimeTrigger(on_battery_since', now')
                       \/ ChargeTrigger(Val(status'))
                       \/ RuntimeTrigger(Val(status'))
              /\ (config.on_battery_seconds = 0 =>
                    /\ shutdown_scheduled'
                    /\ pc' = "countdown"
                    /\ scheduled_at' = on_battery_since'
                    /\ (IsNone(on_battery_since) =>
                          on_battery_since' = Some(now')))) ]_vars

\* C23 witness: on_battery_seconds is 0, charge and runtime are above their
\* thresholds, and the shutdown started at the first on-battery snapshot,
\* read after earlier cycles that were on line or failed.
C23_Witness ==
  /\ config.shutdown_enabled
  /\ config.on_battery_seconds = 0
  /\ pc = "countdown"
  /\ shutdown_scheduled
  /\ status.ok
  /\ Val(status).on_battery
  /\ ~ChargeTrigger(Val(status))
  /\ ~RuntimeTrigger(Val(status))
  /\ now > 0
  /\ on_battery_since = Some(now)
  /\ scheduled_at = Some(now)
====
